---------------------------- MODULE Spec2Model ----------------------------
(***************************************************************************)
(* Slot scheduling and room allocation of the library booking bot          *)
(* (src/ai.py): the Rooms, Schedule and Bookings worksheets, and the three *)
(* engine operations find_and_hold_room_for_period, finalize_booking and   *)
(* cancel_by_student_and_date, executed one at a time.                     *)
(*                                                                         *)
(* Strings whose characters the code inspects (student ids) are sequences  *)
(* of character codes: 0..9 are the digits, codes >= 10 are other          *)
(* characters.  Wall-clock times are minutes since midnight.               *)
(***************************************************************************)
EXTENDS Integers, Sequences, FiniteSets, TLC

(***************************************************************************)
(* Business rules (src/ai.py 82-85).                                       *)
(***************************************************************************)
OPEN_HOUR == 8
CLOSE_HOUR == 20
SLOT_MINUTES == 30
NUM_SLOTS == 24

(***************************************************************************)
(* Bounds of the model.                                                    *)
(***************************************************************************)
\* Rooms seeded per discussion bucket (ROOM_COUNTS, scaled down).
PoolSize == 2
\* Calls of the engine in one run.
MaxCalls == 3

None == <<>>

Max(S) == CHOOSE m \in S : \A n \in S : n <= m
Min(S) == CHOOSE m \in S : \A n \in S : m <= n

Range(s) == {s[i] : i \in 1..Len(s)}

\* Python's floor division a // b for b > 0.
FloorDiv(a, b) == IF a >= 0 THEN a \div b ELSE 0 - (((0 - a) + b - 1) \div b)

(***************************************************************************)
(* Slot math.                                                              *)
(***************************************************************************)
Hour(t) == t \div 60
Minute(t) == t % 60

\* The slot index counted from 0.
dt_to_slot_index_from_zero(t) ==
    LET minutes_since_open == (Hour(t) - OPEN_HOUR) * 60 + Minute(t)
        idx == FloorDiv(minutes_since_open, SLOT_MINUTES)
    IN  IF minutes_since_open < 0 \/ Hour(t) >= CLOSE_HOUR THEN 0
        ELSE IF ~(1 <= idx /\ idx <= 24) THEN 0
        ELSE idx

\* dt_to_slot_index: the slot index, or 0 where the code raises ValueError.
dt_to_slot_index(t) ==
    LET minutes_since_open == (Hour(t) - OPEN_HOUR) * 60 + Minute(t)
        idx == FloorDiv(minutes_since_open, SLOT_MINUTES) + 1
    IN  IF minutes_since_open < 0 \/ Hour(t) >= CLOSE_HOUR THEN 0
        ELSE IF ~(1 <= idx /\ idx <= 24) THEN 0
        ELSE idx

\* The list with the slot that begins at the window's end included.
slots_from_period_closed(start_t, end_t) ==
    LET total_slots == FloorDiv(end_t - start_t, SLOT_MINUTES) + 1
        start_slot == dt_to_slot_index(start_t)
    IN  IF start_slot = 0 THEN [ok |-> FALSE, slots |-> <<>>]
        ELSE [ok |-> TRUE,
              slots |-> IF total_slots <= 0 THEN <<>>
                        ELSE [i \in 1..total_slots |-> start_slot + (i - 1)]]

\* The conversion refusing a window that does not end after its start.
slots_from_period_strict(start_t, end_t) ==
    LET total_slots == FloorDiv(end_t - start_t, SLOT_MINUTES)
        start_slot == dt_to_slot_index(start_t)
    IN  IF start_slot = 0 \/ total_slots <= 0 THEN [ok |-> FALSE, slots |-> <<>>]
        ELSE [ok |-> TRUE,
              slots |-> [i \in 1..total_slots |-> start_slot + (i - 1)]]

\* slots_from_period: [ok |-> FALSE] where dt_to_slot_index raises.
slots_from_period(start_t, end_t) ==
    LET total_slots == FloorDiv(end_t - start_t, SLOT_MINUTES)
        start_slot == dt_to_slot_index(start_t)
    IN  IF start_slot = 0 THEN [ok |-> FALSE, slots |-> <<>>]
        ELSE [ok |-> TRUE,
              slots |-> IF total_slots <= 0 THEN <<>>
                        ELSE [i \in 1..total_slots |-> start_slot + (i - 1)]]

(***************************************************************************)
(* Student ids.                                                            *)
(***************************************************************************)
IsDigit(c) == c \in 0..9

\* normalize_student_id for a string value: keep the digits, accept exactly 7.
normalize_student_id(val) ==
    IF val = None THEN None
    ELSE LET s == SelectSeq(val, IsDigit)
         IN  IF Len(s) = 7 THEN s ELSE None

RECURSIVE StripLeadingZeros(_)
StripLeadingZeros(s) ==
    IF Len(s) > 1 /\ s[1] = 0 THEN StripLeadingZeros(Tail(s)) ELSE s

\* What get_all_records hands back for a cell, as str() prints it: a cell
\* that reads as an integer is converted to int (numericise), so its
\* leading zeros are gone; any other text is returned as it is.
RecordValueStr(cell) ==
    IF cell # <<>> /\ \A i \in 1..Len(cell) : IsDigit(cell[i])
    THEN StripLeadingZeros(cell)
    ELSE cell

(***************************************************************************)
(* Worksheet contents.                                                     *)
(***************************************************************************)
\* A Schedule cell: "" (free), "HOLD:<id>" or a booking id "BKG-<uuid>".
Free == [kind |-> "", id |-> <<>>]
HoldTag(sid) == [kind |-> "HOLD", id |-> sid]
\* A booking id that does not depend on the uuid drawn.
BookingId_fixed(n) == [kind |-> "BKG", id |-> <<1>>]
BookingId(n) == [kind |-> "BKG", id |-> <<n>>]

empty_slots == [s \in 1..NUM_SLOTS |-> Free]

\* Room pools; the code seeds 18 solo, 22 small, 13 medium and 8 large.
ROOM_COUNTS == [solo |-> 1, small |-> PoolSize, medium |-> 1, large |-> 1]

SeedBucket(prefix, bucket, cmin, cmax) ==
    [i \in 1..ROOM_COUNTS[bucket] |->
        [room_id |-> <<prefix, i>>, room_type |-> bucket,
         capacity_min |-> cmin, capacity_max |-> cmax]]

\* The Rooms worksheet after _seed_rooms_if_empty.
ws_rooms ==
    SeedBucket("SOLO", "solo", 1, 1) \o SeedBucket("S", "small", 2, 3)
      \o SeedBucket("M", "medium", 4, 6) \o SeedBucket("L", "large", 7, 9)

bucket_from_internal_type(internal_code) ==
    CASE internal_code = "SOLO-1" -> "solo"
      [] internal_code = "DISCUSSION-S" -> "small"
      [] internal_code = "DISCUSSION-M" -> "medium"
      [] internal_code = "DISCUSSION-L" -> "large"
      [] OTHER -> ""

\* The room ids of the whole Rooms worksheet, whatever the bucket asked.
bucket_rooms_any(bucket) ==
    [i \in 1..Len(ws_rooms) |-> ws_rooms[i].room_id]

\* The room ids of a bucket, in the order of the Rooms worksheet.
bucket_rooms(bucket) ==
    LET InBucket(r) == r.room_type = bucket
        rs == SelectSeq(ws_rooms, InBucket)
    IN  [i \in 1..Len(rs) |-> rs[i].room_id]

(***************************************************************************)
(* Party size to room type, for an integer size.                           *)
(***************************************************************************)
MIN_GROUP == 1
MAX_GROUP == 9

\* auto_category_from_size; "" stands for the None returned outside
\* MIN_GROUP..MAX_GROUP (the callers test it with "not").
auto_category_from_size(n) ==
    IF ~(MIN_GROUP <= n /\ n <= MAX_GROUP) THEN ""
    ELSE IF n = 1 THEN "solo" ELSE "discussion"

\* The discussion sizes with the small range one too wide.
room_type_from_size_and_category_wide(n, cat) ==
    IF cat = "solo" THEN "SOLO-1"
    ELSE IF cat = "discussion" /\ 2 <= n /\ n <= 4 THEN "DISCUSSION-S"
    ELSE IF cat = "discussion" /\ 5 <= n /\ n <= 6 THEN "DISCUSSION-M"
    ELSE IF cat = "discussion" /\ 7 <= n /\ n <= 9 THEN "DISCUSSION-L"
    ELSE ""

\* room_type_from_size_and_category: the internal room type code, or ""
\* for None.
room_type_from_size_and_category(n, cat) ==
    IF cat = "solo" THEN "SOLO-1"
    ELSE IF cat = "discussion" /\ 2 <= n /\ n <= 3 THEN "DISCUSSION-S"
    ELSE IF cat = "discussion" /\ 4 <= n /\ n <= 6 THEN "DISCUSSION-M"
    ELSE IF cat = "discussion" /\ 7 <= n /\ n <= 9 THEN "DISCUSSION-L"
    ELSE ""

\* The bucket handle_book_room derives from a party size: "" where it
\* answers that the size is not understood or not supported.
bucket_from_size(n) ==
    LET cat == auto_category_from_size(n)
    IN  IF cat = "" THEN ""
        ELSE LET internal_type == room_type_from_size_and_category(n, cat)
             IN  IF internal_type = "" THEN ""
                 ELSE bucket_from_internal_type(internal_type)

(***************************************************************************)
(* Schedule index.  Row i of a schedule value is worksheet row i + 1.      *)
(***************************************************************************)
\* ScheduleIndex._load_all_for_date: room_id -> row; a later row of the
\* same (date, room_id) replaces an earlier one.
load_all_for_date(sched, date_str) ==
    LET rows(rid) == {i \in 1..Len(sched) :
                        sched[i].date = date_str /\ sched[i].room_id = rid}
    IN  [rid \in {sched[i].room_id : i \in {j \in 1..Len(sched) : sched[j].date = date_str}}
           |-> Max(rows(rid))]

new_row(date_str, room_id, room_type) ==
    [date |-> date_str, room_id |-> room_id, room_type |-> room_type,
     cells |-> empty_slots]

\* The new rows put in front of the rows the sheet already has.
append_rows_front(sched, date_str, bucket, missing) ==
    [i \in 1..Len(missing) |-> new_row(date_str, missing[i], bucket)] \o sched

\* ScheduleIndex.ensure_rows_for_bucket: the schedule with one row appended
\* for every room of the bucket that has none for the date.
append_rows(sched, date_str, bucket, missing) ==
    sched \o [i \in 1..Len(missing) |-> new_row(date_str, missing[i], bucket)]

\* The step appending a row for every room of the bucket, present or not.
ensure_rows_for_bucket_all(sched, date_str, bucket) ==
    append_rows(sched, date_str, bucket, bucket_rooms(bucket))

ensure_rows_for_bucket(sched, date_str, bucket) ==
    LET IsMissing(rid) ==
            ~\E i \in 1..Len(sched) : sched[i].date = date_str /\ sched[i].room_id = rid
    IN  append_rows(sched, date_str, bucket, SelectSeq(bucket_rooms(bucket), IsMissing))

\* ensure_schedule_row: the row of (date, room_id), appended if absent.
\* The row of the room looked up without regard to the date.
row_in_any_date(sched, date_str, room_id) ==
    [sched |-> sched,
     row_idx |-> Max({i \in 1..Len(sched) : sched[i].room_id = room_id})]

row_in(sched, date_str, room_id) ==
    [sched |-> sched, row_idx |-> load_all_for_date(sched, date_str)[room_id]]

ensure_schedule_row(sched, date_str, room_id, room_type) ==
    IF \E i \in 1..Len(sched) : sched[i].date = date_str /\ sched[i].room_id = room_id
    THEN row_in(sched, date_str, room_id)
    ELSE row_in(Append(sched, new_row(date_str, room_id, room_type)), date_str, room_id)

(***************************************************************************)
(* Coalescing and range access.                                            *)
(***************************************************************************)
RECURSIVE coalesce_scan(_, _, _, _, _)
coalesce_scan(s, i, rs, re, runs) ==
    IF i > Len(s) THEN Append(runs, <<rs, re>>)
    ELSE IF s[i] = re + 1 THEN coalesce_scan(s, i + 1, rs, s[i], runs)
    ELSE coalesce_scan(s, i + 1, s[i], s[i], Append(runs, <<rs, re>>))

\* The runs taken in the order given, without the sort.
coalesce_slots_unsorted(slots) ==
    IF slots = <<>> THEN <<>>
    ELSE coalesce_scan(slots, 2, slots[1], slots[1], <<>>)

coalesce_slots(slots) ==
    IF slots = <<>> THEN <<>>
    ELSE LET s == SortSeq(slots, <)
         IN  coalesce_scan(s, 2, s[1], s[1], <<>>)

\* A second application that takes a list of runs as it is.
coalesce_of_runs_lenient(runs) ==
    [raised |-> FALSE, res |-> runs]

\* _coalesce_slots given a list of (start, end) runs: the empty list is
\* returned as it is; for any other, round() of a tuple raises TypeError.
coalesce_of_runs(runs) ==
    IF runs = <<>> THEN [raised |-> FALSE, res |-> <<>>]
    ELSE [raised |-> TRUE, res |-> <<>>]

\* The slots of one inclusive run.
RunSlots(run) == run[1]..run[2]

\* ws_schedule.batch_get of one run of a row: the values from the run's
\* first cell to its last non-empty cell (the store omits trailing empty
\* cells; a wholly empty range comes back empty).
batch_get_run(cells, run) ==
    LET filled == {k \in RunSlots(run) : cells[k] # Free}
    IN  IF filled = {} THEN <<>>
        ELSE [j \in 1..(Max(filled) - run[1] + 1) |-> cells[run[1] + j - 1]]

\* The value replace_hold_with_booking writes back for a cell it read.
finalized_cell(cell, booking_id) ==
    IF cell.kind = "HOLD" THEN booking_id
    ELSE IF cell # Free THEN cell ELSE booking_id

\* replace_hold_with_booking on one row: each run is read, and the values
\* read are written back with holds and empty cells replaced.
replace_hold_with_booking(cells, slots, booking_id) ==
    LET runs == coalesce_slots(slots)
        block(r) == batch_get_run(cells, runs[r])
        Written(k) == {r \in 1..Len(runs) :
                         k \in RunSlots(runs[r]) /\ k - runs[r][1] + 1 <= Len(block(r))}
    IN  [k \in 1..NUM_SLOTS |->
            IF Written(k) = {} THEN cells[k]
            ELSE finalized_cell(cells[k], booking_id)]

\* free_slots writing one "" per run instead of one per cell of the run.
free_slots_head(cells, slots) ==
    LET runs == coalesce_slots(slots)
    IN  [k \in 1..NUM_SLOTS |->
            IF \E r \in 1..Len(runs) : k = runs[r][1] THEN Free
            ELSE cells[k]]

\* free_slots on one row: every cell of every run is set to "".
free_slots(cells, slots) ==
    LET runs == coalesce_slots(slots)
    IN  [k \in 1..NUM_SLOTS |->
            IF \E r \in 1..Len(runs) : k \in RunSlots(runs[r]) THEN Free
            ELSE cells[k]]

(***************************************************************************)
(* Bookings worksheet.                                                     *)
(***************************************************************************)
\* has_active_booking: reads the rows with get_all_records and compares
\* str(student_id cell) with the id asked for.
has_active_booking(bk, student_id, date_str) ==
    \E i \in 1..Len(bk) :
        /\ RecordValueStr(bk[i].student_id) = student_id
        /\ bk[i].date = date_str
        /\ bk[i].status = "active"

(***************************************************************************)
(* find_and_hold_room_for_period.                                          *)
(***************************************************************************)
\* The availability test with any() in place of all().
all_free_any(cells, slots) ==
    \E j \in 1..Len(slots) : cells[slots[j]] = Free

\* Whether every requested slot of a row reads empty in the batched read
\* of the window sL..sR (a cell beyond the values returned reads as "").
all_free(cells, slots) ==
    \A j \in 1..Len(slots) : cells[slots[j]] = Free

\* A write that leaves a cell that is not empty as it is.
write_hold_if_free(cells, slots, hold_tag) ==
    [k \in 1..NUM_SLOTS |->
        IF k \in Range(slots) /\ cells[k] = Free THEN hold_tag ELSE cells[k]]

write_hold_row(cells, slots, hold_tag) ==
    [k \in 1..NUM_SLOTS |->
        IF \E j \in 1..Len(slots) : k <= slots[j] THEN hold_tag ELSE cells[k]]

\* The cells of a row after the batched write of the hold tag.
write_hold(cells, slots, hold_tag) ==
    [k \in 1..NUM_SLOTS |-> IF k \in Range(slots) THEN hold_tag ELSE cells[k]]

Rejected(reason, sched) ==
    [res |-> reason, room_id |-> None, slots |-> <<>>, sched |-> sched]

\* The search keeping the last free candidate instead of the first.
pick_and_hold_last(sched1, idx_map, candidate_room_ids, slots, hold_tag) ==
    LET free_ix == {c \in 1..Len(candidate_room_ids) :
                      all_free(sched1[idx_map[candidate_room_ids[c]]].cells, slots)}
    IN  IF free_ix = {} THEN Rejected("no_availability", sched1)
        ELSE LET room_id == candidate_room_ids[Max(free_ix)]
             IN  [res |-> "ok", room_id |-> room_id, slots |-> slots,
                  sched |-> [sched1 EXCEPT ![idx_map[room_id]].cells =
                                 write_hold(@, slots, hold_tag)]]

\* The first candidate room whose requested slots all read empty gets the
\* hold tag, in one batched write; no candidate free: "no_availability".
pick_and_hold(sched1, idx_map, candidate_room_ids, slots, hold_tag) ==
    LET free_ix == {c \in 1..Len(candidate_room_ids) :
                      all_free(sched1[idx_map[candidate_room_ids[c]]].cells, slots)}
    IN  IF free_ix = {} THEN Rejected("no_availability", sched1)
        ELSE LET room_id == candidate_room_ids[Min(free_ix)]
             IN  [res |-> "ok", room_id |-> room_id, slots |-> slots,
                  sched |-> [sched1 EXCEPT ![idx_map[room_id]].cells =
                                 write_hold(@, slots, hold_tag)]]

\* The part of the call after ensure_rows_for_bucket: the candidates are
\* the bucket's rooms that have a row; min() of an empty slot list raises.
hold_in_rows(sched1, idx_map, bucket, slots, hold_tag) ==
    LET InMap(rid) == rid \in DOMAIN idx_map
        candidate_room_ids == SelectSeq(bucket_rooms(bucket), InMap)
    IN  IF candidate_room_ids = <<>> THEN Rejected("no_availability", sched1)
        ELSE IF slots = <<>> THEN Rejected("error", sched1)
        ELSE pick_and_hold(sched1, idx_map, candidate_room_ids, slots, hold_tag)

hold_checked(sched1, date_str, bucket, slots, hold_tag) ==
    hold_in_rows(sched1, load_all_for_date(sched1, date_str), bucket, slots, hold_tag)

\* The call with the rows ensured before the one-booking-per-day check.
hold_outcome_rows_first(sched, bk, date_str, start_t, end_t, internal_room_type, student_id) ==
    LET period == slots_from_period(start_t, end_t)
        bucket == bucket_from_internal_type(internal_room_type)
        norm_sid == normalize_student_id(student_id)
    IN  IF ~period.ok THEN Rejected("invalid_time", sched)
        ELSE IF bucket = "" THEN Rejected("invalid_type", sched)
        ELSE IF norm_sid # None /\ has_active_booking(bk, norm_sid, date_str)
             THEN Rejected("already_booked",
                           ensure_rows_for_bucket(sched, date_str, bucket))
        ELSE hold_checked(ensure_rows_for_bucket(sched, date_str, bucket),
                          date_str, bucket, period.slots,
                          HoldTag(IF norm_sid # None THEN norm_sid ELSE student_id))

\* The outcome of find_and_hold_room_for_period on a schedule and a ledger:
\* res is "ok", one of the reasons returned, or "error" where the call
\* raises after the rows were ensured.
hold_outcome(sched, bk, date_str, start_t, end_t, internal_room_type, student_id) ==
    LET period == slots_from_period(start_t, end_t)
        bucket == bucket_from_internal_type(internal_room_type)
        norm_sid == normalize_student_id(student_id)
    IN  IF ~period.ok THEN Rejected("invalid_time", sched)
        ELSE IF bucket = "" THEN Rejected("invalid_type", sched)
        ELSE IF norm_sid # None /\ has_active_booking(bk, norm_sid, date_str)
             THEN Rejected("already_booked", sched)
        ELSE hold_checked(ensure_rows_for_bucket(sched, date_str, bucket),
                          date_str, bucket, period.slots,
                          HoldTag(IF norm_sid # None THEN norm_sid ELSE student_id))

(***************************************************************************)
(* finalize_booking.                                                       *)
(***************************************************************************)
\* finalize_booking writing its ledger row over the last row instead of
\* appending one.
finalize_on_row_overwrite(er, bk, booking_id, student_id, date_str, start_t, end_t, internal_room_type, room_id, slots) ==
    LET rec == [booking_id |-> booking_id, student_id |-> student_id,
                date |-> date_str, start_time |-> start_t,
                end_time |-> end_t, room_type |-> internal_room_type,
                room_id |-> room_id, slots |-> slots, status |-> "active"]
    IN  [booking_id |-> booking_id,
         sched |-> [er.sched EXCEPT ![er.row_idx].cells =
                        replace_hold_with_booking(@, slots, booking_id)],
         bk |-> IF bk = <<>> THEN <<rec>> ELSE [bk EXCEPT ![Len(bk)] = rec]]

\* The row is found or created, its targeted cells rewritten, and one
\* ledger row appended.
finalize_on_row(er, bk, booking_id, student_id, date_str, start_t, end_t, internal_room_type, room_id, slots) ==
    [booking_id |-> booking_id,
     sched |-> [er.sched EXCEPT ![er.row_idx].cells =
                    replace_hold_with_booking(@, slots, booking_id)],
     bk |-> Append(bk, [booking_id |-> booking_id, student_id |-> student_id,
                        date |-> date_str, start_time |-> start_t,
                        end_time |-> end_t, room_type |-> internal_room_type,
                        room_id |-> room_id, slots |-> slots,
                        status |-> "active"])]

finalize_outcome(sched, bk, uuid, student_id, date_str, start_t, end_t, internal_room_type, room_id, slots) ==
    finalize_on_row(ensure_schedule_row(sched, date_str, room_id,
                        bucket_from_internal_type(internal_room_type)),
                    bk, BookingId(uuid), student_id, date_str, start_t, end_t,
                    internal_room_type, room_id, slots)

(***************************************************************************)
(* cancel_by_student_and_date.                                             *)
(***************************************************************************)
\* The text of a slots_json cell is kept as the numbers it lists; NotJson
\* stands in it for a piece of text that json.loads cannot read.
NotJson == 0 - 1

\* A slots_json cell edited by hand in the sheet into "[13," (no JSON).
BadSlotsJson == <<13, NotJson>>

\* json.loads(slots_json): the stored list, or a raise (ok FALSE) on text
\* that is no JSON.  A list the program stored reads back as it was.
json_loads(slots_json) ==
    IF \E k \in 1..Len(slots_json) : slots_json[k] = NotJson
    THEN [ok |-> FALSE, slots |-> <<>>]
    ELSE [ok |-> TRUE, slots |-> slots_json]

\* The loop's test without the status comparison.
cancel_matches_any_status(bk, student_id, date_str) ==
    {i \in 1..Len(bk) : /\ bk[i].student_id = student_id
                        /\ bk[i].date = date_str}

\* The ledger rows the loop's test accepts (row_values: the text as stored).
cancel_matches(bk, student_id, date_str) ==
    {i \in 1..Len(bk) : /\ bk[i].student_id = student_id
                        /\ bk[i].date = date_str
                        /\ bk[i].status = "active"}

\* The cancel setting the status and leaving the cells as they are.
cancel_row_keeps_cells(er, bk, r) ==
    [ret |-> TRUE, raised |-> FALSE,
     sched |-> er.sched,
     bk |-> [bk EXCEPT ![r].status = "cancelled"]]

\* The cancel emptying the record's slot list along with its cells.
cancel_row_drops_slots(er, bk, r) ==
    [ret |-> TRUE, raised |-> FALSE,
     sched |-> [er.sched EXCEPT ![er.row_idx].cells = free_slots(@, bk[r].slots)],
     bk |-> [bk EXCEPT ![r].status = "cancelled", ![r].slots = <<>>]]

\* The matched booking's cells are cleared and its status set.
cancel_row(er, bk, r) ==
    [ret |-> TRUE, raised |-> FALSE,
     sched |-> [er.sched EXCEPT ![er.row_idx].cells = free_slots(@, bk[r].slots)],
     bk |-> [bk EXCEPT ![r].status = "cancelled"]]

\* json.loads raises on the first matching row whose slots_json is no JSON
\* text, before any row is ensured, cleared or updated.
cancel_first(sched, bk, date_str, matches) ==
    IF matches = {} THEN [ret |-> FALSE, raised |-> FALSE, sched |-> sched, bk |-> bk]
    ELSE IF ~json_loads(bk[Min(matches)].slots).ok
    THEN [ret |-> FALSE, raised |-> TRUE, sched |-> sched, bk |-> bk]
    ELSE cancel_row(ensure_schedule_row(sched, date_str, bk[Min(matches)].room_id, ""),
                    bk, Min(matches))

\* The loop returns at its first match; ret is the value returned.
cancel_outcome(sched, bk, student_id, date_str) ==
    cancel_first(sched, bk, date_str, cancel_matches(bk, student_id, date_str))

(***************************************************************************)
(* The remote calls a call of the engine issues, in the order issued.      *)
(* The Schedule sheet is created with 2000 rows, so add_rows is not called.*)
(***************************************************************************)
\* ScheduleIndex.ensure_rows_for_bucket: the sheet and the catalog are
\* read; where rooms lack a row the rows are appended and the sheet is
\* read again.
ensure_rows_api_calls(sched, date_str, bucket) ==
    <<"ws_schedule.get_all_values", "ws_rooms.get_all_records">>
      \o (IF Len(ensure_rows_for_bucket(sched, date_str, bucket)) > Len(sched)
          THEN <<"ws_schedule.append_rows", "ws_schedule.get_all_values">>
          ELSE <<>>)

\* The calls of the search: the catalog is read again, then one batched
\* read of the candidates' windows and, for the room chosen, one batched
\* write.
search_api_calls(bucket, res) ==
    <<"ws_rooms.get_all_records">>
      \o (IF bucket_rooms(bucket) = <<>> \/ res = "error" THEN <<>>
          ELSE <<"ws_schedule.batch_get">>)
      \o (IF res = "ok" THEN <<"ws_schedule.batch_update">> ELSE <<>>)

\* find_and_hold_room_for_period: the ledger is read for an id that
\* normalizes; a call turned away issues the calls made until then.
hold_api_calls(sched, bk, date_str, start_t, end_t, internal_room_type, student_id, res) ==
    LET bucket == bucket_from_internal_type(internal_room_type)
        ledger == IF normalize_student_id(student_id) # None
                  THEN <<"ws_bookings.get_all_records">> ELSE <<>>
    IN  IF res \in {"invalid_time", "invalid_type"} THEN <<>>
        ELSE IF res = "already_booked" THEN ledger
        ELSE ledger \o ensure_rows_api_calls(sched, date_str, bucket)
               \o search_api_calls(bucket, res)

\* ensure_schedule_row: the sheet is read; an absent row is appended and
\* the sheet read again.
ensure_row_api_calls(sched, date_str, room_id) ==
    IF \E i \in 1..Len(sched) : sched[i].date = date_str /\ sched[i].room_id = room_id
    THEN <<"ws_schedule.get_all_values">>
    ELSE <<"ws_schedule.get_all_values", "ws_schedule.append_row",
           "ws_schedule.get_all_values">>

\* cancel_by_student_and_date: the ledger is read whole, then row by row
\* up to the first match (all rows without one); for the match the row is
\* ensured, its cells cleared in one batched write (none for an empty
\* slot list) and the status cell updated.  A slots_json that is no JSON
\* ends the call after the row was read.
cancel_api_calls(sched, bk, student_id, date_str) ==
    LET matches == cancel_matches(bk, student_id, date_str)
        rows_read == IF matches = {} THEN Len(bk) ELSE Min(matches)
        reads == <<"ws_bookings.get_all_values">>
                   \o [r \in 1..rows_read |-> "ws_bookings.row_values"]
    IN  IF matches = {} THEN reads
        ELSE IF ~json_loads(bk[Min(matches)].slots).ok THEN reads
        ELSE reads \o ensure_row_api_calls(sched, date_str, bk[Min(matches)].room_id)
               \o (IF bk[Min(matches)].slots = <<>> THEN <<>>
                   ELSE <<"ws_schedule.batch_update">>)
               \o <<"ws_bookings.update_cell">>

(***************************************************************************)
(* Inputs.                                                                 *)
(***************************************************************************)
\* Two days, as _date_str prints them.
Today == "05/11/2026"
Tomorrow == "06/11/2026"
Dates == {Today, Tomorrow}

\* "1234567", "0123456" and the placeholder "PENDING" of handle_book_room.
SID_A == <<1, 2, 3, 4, 5, 6, 7>>
SID_Z == <<0, 1, 2, 3, 4, 5, 6>>
PENDING == <<25, 14, 23, 13, 18, 23, 16>>

ValidIds == {SID_A, SID_Z}
HoldIds == ValidIds \cup {PENDING}

\* 14:00-14:30 and 14:00-15:00.
GoodPeriods == {<<840, 870>>, <<840, 900>>}
\* 20:00-20:30, when the library is closed.
ClosedPeriod == <<1200, 1230>>

InternalTypes == {"DISCUSSION-S"}

internal_type_of(bucket) ==
    CASE bucket = "solo" -> "SOLO-1"
      [] bucket = "small" -> "DISCUSSION-S"
      [] bucket = "medium" -> "DISCUSSION-M"
      [] bucket = "large" -> "DISCUSSION-L"

\* The rooms (rows of ws_rooms) a staged booking may name.
StagedRooms == {i \in 1..Len(ws_rooms) :
                  internal_type_of(ws_rooms[i].room_type) \in InternalTypes}

\* The requests for a hold: for today every well-formed one, one outside
\* opening hours and one of an unknown room type per requester; for
\* tomorrow one requester's.
HoldRequests ==
    ({Today} \X GoodPeriods \X InternalTypes \X HoldIds)
      \cup ({Today} \X {ClosedPeriod} \X InternalTypes \X HoldIds)
      \cup ({Today} \X {<<840, 870>>} \X {"UNKNOWN"} \X HoldIds)
      \cup ({Tomorrow} \X {<<840, 900>>} \X InternalTypes \X {SID_A})

\* The confirmations: any requester, period and room today, one tomorrow.
FinalizeRequests ==
    (ValidIds \X {Today} \X GoodPeriods \X StagedRooms)
      \cup ({SID_A} \X {Tomorrow} \X {<<840, 900>>} \X {Min(StagedRooms)})

CancelRequests == ValidIds \X Dates

(***************************************************************************)
(* State.                                                                  *)
(***************************************************************************)
VARIABLES
    ws_schedule,   \* rows of the Schedule worksheet below the header
    ws_bookings,   \* rows of the Bookings worksheet below the header
    uuid_count,    \* booking ids generated so far
    calls,         \* calls made so far
    last,          \* the latest call: operation, arguments, result
    in_flight      \* the holds under way in concurrent requests

vars == <<ws_schedule, ws_bookings, uuid_count, calls, last, in_flight>>

NoCall == [op |-> "none", res |-> "", student_id |-> None, date |-> "",
           room_id |-> None, slots |-> <<>>, api_calls |-> <<>>]

\* The requests served at the same time (one thread each).
Requests == {1, 2}

\* A request that has not started its hold.
Idle == [pc |-> "idle", res |-> "", student_id |-> None, date |-> "",
         room_id |-> None, row_idx |-> 0, slots |-> <<>>, hold_tag |-> Free]

Init ==
    /\ ws_schedule = <<>>
    /\ ws_bookings = <<>>
    /\ uuid_count = 0
    /\ calls = 0
    /\ last = NoCall
    /\ in_flight = [e \in Requests |-> Idle]

Hold(date_str, period, internal_room_type, student_id) ==
    /\ calls < MaxCalls
    /\ \E o \in {hold_outcome(ws_schedule, ws_bookings, date_str, period[1], period[2],
                              internal_room_type, student_id)} :
        /\ calls' = calls + 1
        /\ ws_schedule' = o.sched
        /\ last' = IF o.res = "ok"
                   THEN [op |-> "hold", res |-> "ok", student_id |-> student_id,
                         date |-> date_str, room_id |-> o.room_id, slots |-> o.slots,
                         api_calls |-> hold_api_calls(ws_schedule, ws_bookings, date_str,
                                           period[1], period[2], internal_room_type,
                                           student_id, o.res)]
                   ELSE [NoCall EXCEPT !.op = "hold", !.res = o.res,
                             !.api_calls = hold_api_calls(ws_schedule, ws_bookings,
                                               date_str, period[1], period[2],
                                               internal_room_type, student_id, o.res)]
        /\ UNCHANGED <<ws_bookings, uuid_count, in_flight>>

Finalize(student_id, date_str, period, room) ==
    /\ calls < MaxCalls
    /\ \E o \in {finalize_outcome(ws_schedule, ws_bookings, uuid_count + 1, student_id,
                                  date_str, period[1], period[2],
                                  internal_type_of(ws_rooms[room].room_type),
                                  ws_rooms[room].room_id,
                                  slots_from_period(period[1], period[2]).slots)} :
        /\ calls' = calls + 1
        /\ uuid_count' = uuid_count + 1
        /\ ws_schedule' = o.sched
        /\ ws_bookings' = o.bk
        /\ last' = [op |-> "finalize", res |-> "ok", student_id |-> student_id,
                    date |-> date_str, room_id |-> ws_rooms[room].room_id,
                    slots |-> slots_from_period(period[1], period[2]).slots]
        /\ UNCHANGED in_flight

Cancel(student_id, date_str) ==
    /\ calls < MaxCalls
    /\ \E o \in {cancel_outcome(ws_schedule, ws_bookings, student_id, date_str)} :
        /\ calls' = calls + 1
        /\ ws_schedule' = o.sched
        /\ ws_bookings' = o.bk
        /\ last' = [(IF o.raised
                     THEN [NoCall EXCEPT !.op = "cancel", !.res = "error"]
                     ELSE IF o.ret
                     THEN [NoCall EXCEPT !.op = "cancel", !.res = "true",
                                         !.student_id = student_id, !.date = date_str]
                     ELSE [NoCall EXCEPT !.op = "cancel", !.res = "false"])
                      EXCEPT !.api_calls = cancel_api_calls(ws_schedule, ws_bookings,
                                                            student_id, date_str)]
        /\ UNCHANGED <<uuid_count, in_flight>>

Next ==
    \/ \E rq \in HoldRequests : Hold(rq[1], rq[2], rq[3], rq[4])
    \/ \E rq \in FinalizeRequests : Finalize(rq[1], rq[2], rq[3], rq[4])
    \/ \E rq \in CancelRequests : Cancel(rq[1], rq[2])

Spec == Init /\ [][Next]_vars

(***************************************************************************)
(* Vocabulary of the properties.                                           *)
(***************************************************************************)
\* The cell the code addresses for (date, room, slot); "" without a row.
CellOf(sched, date_str, room_id, k) ==
    IF \E i \in 1..Len(sched) : sched[i].date = date_str /\ sched[i].room_id = room_id
    THEN sched[load_all_for_date(sched, date_str)[room_id]].cells[k]
    ELSE Free

Active(bk) == {i \in 1..Len(bk) : bk[i].status = "active"}

\* A step that is a call of the engine (every call counts one).
Called == calls' = calls + 1
HoldReturned(reason) == Called /\ last'.op = "hold" /\ last'.res = reason
FinalizeReturned == Called /\ last'.op = "finalize"
CancelReturned(ret) == Called /\ last'.op = "cancel" /\ last'.res = ret

\* Every cell of every row but the given slots of one (date, room) is as before.
OtherCellsUnchanged(date_str, room_id, slots) ==
    \A i \in 1..Len(ws_schedule) :
        /\ ws_schedule'[i].date = ws_schedule[i].date
        /\ ws_schedule'[i].room_id = ws_schedule[i].room_id
        /\ \A k \in 1..NUM_SLOTS :
              ws_schedule'[i].cells[k] # ws_schedule[i].cells[k]
                => /\ ws_schedule[i].date = date_str
                   /\ ws_schedule[i].room_id = room_id
                   /\ k \in Range(slots)

(***************************************************************************)
(* C1: for every (day, room), the slot lists of the active bookings are    *)
(* pairwise disjoint, and no slot of an active booking is Held by another  *)
(* requester.                                                              *)
(***************************************************************************)
C1_ClaimsDisjoint ==
    \A i \in Active(ws_bookings) :
        /\ \A j \in Active(ws_bookings) :
              (i # j /\ ws_bookings[i].date = ws_bookings[j].date
                     /\ ws_bookings[i].room_id = ws_bookings[j].room_id)
                => Range(ws_bookings[i].slots) \cap Range(ws_bookings[j].slots) = {}
        /\ \A k \in Range(ws_bookings[i].slots) :
              LET cell == CellOf(ws_schedule, ws_bookings[i].date,
                                 ws_bookings[i].room_id, k)
              IN  cell.kind = "HOLD" => cell.id = ws_bookings[i].student_id

(***************************************************************************)
(* C2: the ledger holds at most one active record per (requester id, day). *)
(***************************************************************************)
C2_OneActivePerDay ==
    \A i, j \in Active(ws_bookings) :
        (ws_bookings[i].student_id = ws_bookings[j].student_id
           /\ ws_bookings[i].date = ws_bookings[j].date) => i = j

(***************************************************************************)
(* C3: when hold calls run one at a time, a hold succeeds only with a room *)
(* whose requested cells were all unoccupied before the call; so a hold    *)
(* that directly follows a successful hold of the same day with            *)
(* overlapping slots never returns the same room.                          *)
(***************************************************************************)
C3_SequentialHoldsExclusive ==
    [][HoldReturned("ok") =>
         /\ \A k \in Range(last'.slots) :
               CellOf(ws_schedule, last'.date, last'.room_id, k) = Free
         /\ (last.op = "hold" /\ last.res = "ok" /\ last.date = last'.date
               /\ Range(last.slots) \cap Range(last'.slots) # {})
              => last'.room_id # last.room_id]_vars

\* A later hold was given the second room while the first room is Held
\* for an overlapping slot.
C3_Witness ==
    /\ last.op = "hold" /\ last.res = "ok"
    /\ last.room_id = bucket_rooms("small")[2]
    /\ \E k \in Range(last.slots) :
          CellOf(ws_schedule, last.date, bucket_rooms("small")[1], k).kind = "HOLD"

(***************************************************************************)
(* C4: a hold requested with a validated identifier that has an active     *)
(* booking on the day returns "already_booked" and changes nothing.        *)
(***************************************************************************)
C4_ActiveBookingBlocksHold ==
    [][\A rq \in HoldRequests :
          (/\ rq[4] \in ValidIds
           /\ rq[2] \in GoodPeriods
           /\ rq[3] \in InternalTypes
           /\ \E i \in Active(ws_bookings) :
                 /\ ws_bookings[i].student_id = rq[4]
                 /\ ws_bookings[i].date = rq[1]
           /\ Hold(rq[1], rq[2], rq[3], rq[4]))
            => /\ last'.res = "already_booked"
               /\ ws_schedule' = ws_schedule
               /\ ws_bookings' = ws_bookings]_vars

(***************************************************************************)
(* C5: a hold that returns one of the four rejections (invalid_time,       *)
(* invalid_type, already_booked, no_availability) leaves the schedule and  *)
(* the ledger exactly as they were.                                        *)
(***************************************************************************)
C5_RejectionsChangeNothing ==
    [][(Called /\ last'.op = "hold"
          /\ last'.res \in {"invalid_time", "invalid_type",
                            "already_booked", "no_availability"})
         => /\ ws_schedule' = ws_schedule
            /\ ws_bookings' = ws_bookings]_vars

\* A hold was turned away for want of a free room, the last check made.
C5_Witness ==
    /\ last.op = "hold" /\ last.res = "no_availability"
    /\ \E i \in 1..Len(ws_schedule) : \E k \in 1..NUM_SLOTS :
          ws_schedule[i].cells[k] # Free

(***************************************************************************)
(* C6: a cancel leaves no active record of that requester and day, and     *)
(* what it returns counts the records that were active.                    *)
(***************************************************************************)
C6_CancelsEveryMatch ==
    [][CancelReturned("true") =>
         /\ cancel_matches(ws_bookings', last'.student_id, last'.date) = {}
         /\ Cardinality(cancel_matches(ws_bookings, last'.student_id, last'.date)) = 1
      ]_vars

(***************************************************************************)
(* C7: a cancel for a requester and day without an active record returns   *)
(* false (no cancellation) and changes nothing: a cancel that returns      *)
(* false changed nothing, and one that returns true had an active record.  *)
(***************************************************************************)
C7_CancelWithoutMatch ==
    [][(Called /\ last'.op = "cancel") =>
         /\ last'.res = "false" =>
               (ws_schedule' = ws_schedule /\ ws_bookings' = ws_bookings)
         /\ last'.res = "true" =>
               \E i \in Active(ws_bookings) :
                   /\ ws_bookings[i].student_id = last'.student_id
                   /\ ws_bookings[i].date = last'.date]_vars

\* A cancel found nothing to cancel although the ledger holds an active
\* booking and the schedule an occupied cell.
C7_Witness ==
    /\ last.op = "cancel" /\ last.res = "false"
    /\ Active(ws_bookings) # {}
    /\ \E i \in 1..Len(ws_schedule) : \E k \in 1..NUM_SLOTS :
          ws_schedule[i].cells[k] # Free

(***************************************************************************)
(* C8: on a day that is otherwise empty (none of its cells occupied, no    *)
(* active booking in the ledger for it), (a) a well-formed hold returns a  *)
(* room and the slot list and marks exactly those cells Held; (b) the      *)
(* finalize that follows with the returned room and slots returns a fresh  *)
(* booking id, writes it into exactly those cells and appends one active   *)
(* ledger row; (c) the cancel that follows reports a cancellation, clears  *)
(* exactly those cells and sets that ledger row to cancelled.  Nothing     *)
(* else in the schedule or the ledger changes.                             *)
(***************************************************************************)
\* No cell of the day is occupied except the given slots of the given room.
DayEmptyBut(date_str, room_id, slots) ==
    \A i \in 1..Len(ws_schedule) : \A k \in 1..NUM_SLOTS :
        (ws_schedule[i].date = date_str /\ ws_schedule[i].cells[k] # Free)
          => (ws_schedule[i].room_id = room_id /\ k \in Range(slots))

NoActiveOn(date_str) ==
    \A i \in Active(ws_bookings) : ws_bookings[i].date # date_str

\* Rows may be added below those that were there; an added row is empty
\* but for the given slots of the given room.
RowsAddedEmptyBut(date_str, room_id, slots) ==
    /\ Len(ws_schedule') >= Len(ws_schedule)
    /\ \A i \in (Len(ws_schedule) + 1)..Len(ws_schedule') : \A k \in 1..NUM_SLOTS :
          ws_schedule'[i].cells[k] # Free
            => /\ ws_schedule'[i].date = date_str
               /\ ws_schedule'[i].room_id = room_id
               /\ k \in Range(slots)

C8_HoldStep ==
    \A rq \in HoldRequests :
        (/\ Called /\ last'.op = "hold"
         /\ rq[2] \in GoodPeriods /\ rq[3] \in InternalTypes
         /\ DayEmptyBut(rq[1], None, <<>>) /\ NoActiveOn(rq[1])
         /\ Hold(rq[1], rq[2], rq[3], rq[4]))
          => /\ last'.res = "ok"
             /\ last'.room_id \in Range(bucket_rooms(bucket_from_internal_type(rq[3])))
             /\ last'.slots = slots_from_period(rq[2][1], rq[2][2]).slots
             /\ last'.slots # <<>>
             /\ \A k \in Range(last'.slots) :
                   CellOf(ws_schedule', rq[1], last'.room_id, k) = HoldTag(rq[4])
             /\ OtherCellsUnchanged(rq[1], last'.room_id, last'.slots)
             /\ RowsAddedEmptyBut(rq[1], last'.room_id, last'.slots)
             /\ ws_bookings' = ws_bookings

C8_FinalizeStep ==
    (/\ last.op = "hold" /\ last.res = "ok"
     /\ DayEmptyBut(last.date, last.room_id, last.slots) /\ NoActiveOn(last.date)
     /\ FinalizeReturned
     /\ last'.date = last.date /\ last'.room_id = last.room_id
     /\ last'.slots = last.slots)
      => /\ Len(ws_bookings') = Len(ws_bookings) + 1
         /\ SubSeq(ws_bookings', 1, Len(ws_bookings)) = ws_bookings
         /\ LET b == ws_bookings'[Len(ws_bookings')]
            IN  /\ b.status = "active"
                /\ b.student_id = last'.student_id /\ b.date = last.date
                /\ b.room_id = last.room_id /\ b.slots = last.slots
                /\ \A i \in 1..Len(ws_bookings) :
                      ws_bookings[i].booking_id # b.booking_id
                /\ \A k \in Range(last.slots) :
                      CellOf(ws_schedule', last.date, last.room_id, k) = b.booking_id
         /\ OtherCellsUnchanged(last.date, last.room_id, last.slots)
         /\ Len(ws_schedule') = Len(ws_schedule)

C8_CancelStep ==
    (/\ last.op = "finalize"
     /\ ws_bookings # <<>>
     /\ {i \in Active(ws_bookings) : ws_bookings[i].date = last.date}
          = {Len(ws_bookings)}
     /\ LET b == ws_bookings[Len(ws_bookings)]
        IN  /\ b.student_id = last.student_id
            /\ b.room_id = last.room_id /\ b.slots = last.slots
            /\ \A k \in Range(last.slots) :
                  CellOf(ws_schedule, last.date, last.room_id, k) = b.booking_id
     /\ DayEmptyBut(last.date, last.room_id, last.slots)
     /\ Cancel(last.student_id, last.date))
      => /\ last'.res = "true"
         /\ ws_bookings' = [ws_bookings EXCEPT ![Len(ws_bookings)].status = "cancelled"]
         /\ \A k \in Range(last.slots) :
               CellOf(ws_schedule', last.date, last.room_id, k) = Free
         /\ OtherCellsUnchanged(last.date, last.room_id, last.slots)
         /\ Len(ws_schedule') = Len(ws_schedule)

C8_HoldFinalizeCancel ==
    [][C8_HoldStep /\ C8_FinalizeStep /\ C8_CancelStep]_vars

\* The three calls have run on the day: the rows of the whole bucket exist,
\* the one booking of two slots is cancelled and every cell is free again.
C8_Witness ==
    /\ calls = 3
    /\ last.op = "cancel" /\ last.res = "true"
    /\ Len(ws_bookings) = 1
    /\ ws_bookings[1].status = "cancelled"
    /\ ws_bookings[1].student_id = last.student_id
    /\ ws_bookings[1].date = last.date
    /\ Len(ws_bookings[1].slots) = 2
    /\ Len(ws_schedule) = Len(bucket_rooms("small"))
    /\ \A i \in 1..Len(ws_schedule) : ws_schedule[i].cells = empty_slots

(***************************************************************************)
(* C9: a ledger record is created active, by finalize only, and its only   *)
(* change is active to cancelled, by cancel only; a cancelled record stays *)
(* as it is, is not matched by a cancel and does not count for the         *)
(* one-booking-per-day check.                                              *)
(***************************************************************************)
C9_CancelledIsTerminal ==
    [][/\ Len(ws_bookings') >= Len(ws_bookings)
       /\ \A i \in 1..Len(ws_bookings) :
             /\ ws_bookings[i].status = "cancelled"
                  => ws_bookings'[i] = ws_bookings[i]
             /\ ws_bookings'[i] # ws_bookings[i]
                  => /\ last'.op = "cancel"
                     /\ ws_bookings'[i] = [ws_bookings[i] EXCEPT !.status = "cancelled"]
       /\ \A i \in (Len(ws_bookings) + 1)..Len(ws_bookings') :
             /\ last'.op = "finalize"
             /\ ws_bookings'[i].status = "active"
       /\ \A sid \in ValidIds : \A d \in Dates :
             /\ cancel_matches(ws_bookings, sid, d) \subseteq Active(ws_bookings)
             /\ has_active_booking(ws_bookings, sid, d)
                  => \E i \in Active(ws_bookings) : ws_bookings[i].date = d
      ]_vars

\* After a booking was cancelled, the same requester has booked the same
\* day again; the cancelled record is still there.
C9_Witness ==
    /\ last.op = "finalize"
    /\ \E i \in 1..Len(ws_bookings) :
          /\ ws_bookings[i].status = "cancelled"
          /\ ws_bookings[i].student_id = last.student_id
          /\ ws_bookings[i].date = last.date
          /\ i < Len(ws_bookings)

(***************************************************************************)
(* C10: after a finalize, every cell it targeted holds the new booking id, *)
(* whatever the cell held before.                                          *)
(***************************************************************************)
C10_FinalizeOverwrites ==
    [][FinalizeReturned =>
         \A k \in Range(last'.slots) :
             CellOf(ws_schedule', last'.date, last'.room_id, k)
               = ws_bookings'[Len(ws_bookings')].booking_id]_vars

(***************************************************************************)
(* C11: each finalize appends exactly one ledger record: active, with the  *)
(* requester, day, room and slot list given, and with a booking id that no *)
(* record already in the ledger has; the records that were there are       *)
(* unchanged.                                                              *)
(***************************************************************************)
C11_FinalizeAppendsOne ==
    [][FinalizeReturned =>
         /\ Len(ws_bookings') = Len(ws_bookings) + 1
         /\ SubSeq(ws_bookings', 1, Len(ws_bookings)) = ws_bookings
         /\ LET b == ws_bookings'[Len(ws_bookings')]
            IN  /\ b.status = "active"
                /\ b.student_id = last'.student_id
                /\ b.date = last'.date
                /\ b.room_id = last'.room_id
                /\ b.slots = last'.slots
                /\ \A i \in 1..Len(ws_bookings) :
                      ws_bookings[i].booking_id # b.booking_id]_vars

\* The third booking in a row was appended to a ledger of two.
C11_Witness ==
    /\ last.op = "finalize"
    /\ Len(ws_bookings) = 3
    /\ ws_bookings[3].student_id = last.student_id

(***************************************************************************)
(* C12: after a successful hold for a requester and day, a cancel for that *)
(* requester and day right after it (no finalize between) returns the held *)
(* cells to free.                                                          *)
(***************************************************************************)
C12_CancelReleasesHold ==
    [][(/\ last.op = "hold" /\ last.res = "ok"
        /\ last.student_id \in ValidIds
        /\ Cancel(last.student_id, last.date))
         => \A k \in Range(last.slots) :
               CellOf(ws_schedule', last.date, last.room_id, k) = Free]_vars

(***************************************************************************)
(* C13: a Held cell changes only when a finalize targets it; no cancel and *)
(* no hold changes or clears a Held cell.                                  *)
(***************************************************************************)
C13_HeldUntilFinalized ==
    [][\A i \in 1..Len(ws_schedule) : \A k \in 1..NUM_SLOTS :
          (/\ ws_schedule[i].cells[k].kind = "HOLD"
           /\ ws_schedule'[i].cells[k] # ws_schedule[i].cells[k])
            => /\ FinalizeReturned
               /\ last'.date = ws_schedule[i].date
               /\ last'.room_id = ws_schedule[i].room_id
               /\ k \in Range(last'.slots)]_vars

(***************************************************************************)
(* C14: the slot list, room, day and requester (and every field but the    *)
(* status) of a ledger record never change once the record exists; a step  *)
(* that is not a cancel changes no field of an existing record.            *)
(***************************************************************************)
C14_RecordFieldsFrozen ==
    [][\A i \in 1..Len(ws_bookings) :
          /\ i <= Len(ws_bookings')
          /\ [ws_bookings'[i] EXCEPT !.status = ws_bookings[i].status] = ws_bookings[i]
          /\ last'.op # "cancel" => ws_bookings'[i] = ws_bookings[i]]_vars

\* A booking of two slots was cancelled: its cells are free and the record
\* still lists both slots.
C14_Witness ==
    /\ last.op = "cancel" /\ last.res = "true"
    /\ \E i \in 1..Len(ws_bookings) :
          /\ ws_bookings[i].status = "cancelled"
          /\ ws_bookings[i].student_id = last.student_id
          /\ Len(ws_bookings[i].slots) = 2
          /\ \A k \in Range(ws_bookings[i].slots) :
                CellOf(ws_schedule, ws_bookings[i].date, ws_bookings[i].room_id, k) = Free

(***************************************************************************)
(* The functions called once, on their own: one call from the initial      *)
(* state, its arguments and result kept in last.                           *)
(***************************************************************************)
\* Party sizes tried, from -MaxParty to MaxParty.
MaxParty == 12
PartySizes == (0 - MaxParty)..MaxParty

\* The minutes of a day, and the quarter hours of a day.
DayMinutes == 0..(24 * 60 - 1)
QuarterHours == {15 * i : i \in 0..(24 * 4 - 1)}

SlotIndexCall(t) ==
    /\ calls = 0
    /\ calls' = 1
    /\ last' = [op |-> "dt_to_slot_index", t |-> t,
                raised |-> dt_to_slot_index(t) = 0, res |-> dt_to_slot_index(t)]
    /\ UNCHANGED <<ws_schedule, ws_bookings, uuid_count, in_flight>>

SlotsFromPeriodCall(start_t, end_t) ==
    /\ calls = 0
    /\ calls' = 1
    /\ last' = [op |-> "slots_from_period", start_t |-> start_t, end_t |-> end_t,
                raised |-> ~slots_from_period(start_t, end_t).ok,
                res |-> slots_from_period(start_t, end_t).slots]
    /\ UNCHANGED <<ws_schedule, ws_bookings, uuid_count, in_flight>>

BucketFromSizeCall(n) ==
    /\ calls = 0
    /\ calls' = 1
    /\ last' = [op |-> "bucket_from_size", n |-> n, res |-> bucket_from_size(n)]
    /\ UNCHANGED <<ws_schedule, ws_bookings, uuid_count, in_flight>>

\* find_and_hold_room_for_period on the empty store, for any window that
\* ends by closing time.
HoldOnWindow(start_t, end_t) ==
    /\ calls = 0
    /\ end_t <= CLOSE_HOUR * 60
    /\ \E o \in {hold_outcome(ws_schedule, ws_bookings, Today, start_t, end_t,
                              "DISCUSSION-S", SID_A)} :
        /\ calls' = 1
        /\ ws_schedule' = o.sched
        /\ last' = [op |-> "hold", res |-> o.res, start_t |-> start_t,
                    end_t |-> end_t, room_id |-> o.room_id, slots |-> o.slots]
        /\ UNCHANGED <<ws_bookings, uuid_count, in_flight>>

\* Slot lists given to _coalesce_slots: every list of up to MaxList of the
\* sample slots, and the list 5, 6, 7, 10, 11 in every order.
MaxList == 3
SlotSample == {5, 6, 7, 10, 11}
OrdersOf(x) ==
    {[i \in 1..Len(x) |-> x[f[i]]] :
        f \in {g \in [1..Len(x) -> 1..Len(x)] :
                 \A i, j \in 1..Len(x) : g[i] = g[j] => i = j}}
SlotLists ==
    UNION {[1..n -> SlotSample] : n \in 0..MaxList}
      \cup OrdersOf(<<5, 6, 7, 10, 11>>)

\* _coalesce_slots(x), and _coalesce_slots applied to what it returned.
CoalesceCall(x) ==
    /\ calls = 0
    /\ calls' = 1
    /\ last' = [op |-> "coalesce_slots", x |-> x, res |-> coalesce_slots(x),
                again |-> coalesce_of_runs(coalesce_slots(x))]
    /\ UNCHANGED <<ws_schedule, ws_bookings, uuid_count, in_flight>>

FnNext ==
    \/ calls = 0 /\ \E t \in DayMinutes : SlotIndexCall(t)
    \/ calls = 0 /\ \E start_t \in QuarterHours : \E end_t \in QuarterHours :
          SlotsFromPeriodCall(start_t, end_t)
    \/ calls = 0 /\ \E n \in PartySizes : BucketFromSizeCall(n)
    \/ calls = 0 /\ \E start_t \in QuarterHours : \E end_t \in QuarterHours :
          HoldOnWindow(start_t, end_t)
    \/ calls = 0 /\ \E x \in SlotLists : CoalesceCall(x)

FnSpec == Init /\ [][FnNext]_vars

\* Opening and closing time in minutes of the day.
OpensAt == OPEN_HOUR * 60
ClosesAt == CLOSE_HOUR * 60

(***************************************************************************)
(* C15: for a time t at whole minutes, dt_to_slot_index(t) is              *)
(* floor((t - 08:00) / 30 min) + 1, a value in 1..24, when                 *)
(* 08:00 <= t < 20:00 (1 at 08:00, 24 at 19:30), and raises when t is      *)
(* before 08:00 or at or after 20:00.                                      *)
(***************************************************************************)
C15_SlotIndex ==
    last.op = "dt_to_slot_index" =>
        /\ (OpensAt <= last.t /\ last.t < ClosesAt)
             => /\ ~last.raised
                /\ last.res = ((last.t - OpensAt) \div 30) + 1
                /\ last.res \in 1..24
        /\ (last.t < OpensAt \/ last.t >= ClosesAt) => last.raised
        /\ last.t = 8 * 60 => last.res = 1
        /\ last.t = 19 * 60 + 30 => last.res = 24

\* The index of the last slot of the day was computed.
C15_Witness ==
    /\ last.op = "dt_to_slot_index"
    /\ last.t = 19 * 60 + 59
    /\ last.res = 24

(***************************************************************************)
(* C16: for a window whose start is inside opening hours and whose end is  *)
(* not before its start, slots_from_period is the list of consecutive      *)
(* integers that begins at the slot index of the start and has as many     *)
(* entries as there are whole 30 minutes in the window; 14:00 to 16:00     *)
(* gives 13, 14, 15, 16.                                                   *)
(***************************************************************************)
C16_SlotsFromPeriod ==
    (/\ last.op = "slots_from_period"
     /\ OpensAt <= last.start_t /\ last.start_t < ClosesAt
     /\ last.start_t <= last.end_t)
      => /\ ~last.raised
         /\ Len(last.res) = (last.end_t - last.start_t) \div 30
         /\ \A i \in 1..Len(last.res) :
               last.res[i] = ((last.start_t - OpensAt) \div 30) + i
         /\ (last.start_t = 14 * 60 /\ last.end_t = 16 * 60)
              => last.res = <<13, 14, 15, 16>>

\* The two-hour window of the example was converted.
C16_Witness ==
    /\ last.op = "slots_from_period"
    /\ last.start_t = 14 * 60 /\ last.end_t = 16 * 60
    /\ Len(last.res) = 4

(***************************************************************************)
(* C18: party size 1 maps to the solo bucket, 2..3 to small, 4..6 to       *)
(* medium, 7..9 to large, and every other integer to no bucket.            *)
(***************************************************************************)
C18_BucketFromSize ==
    last.op = "bucket_from_size" =>
        last.res = CASE last.n = 1 -> "solo"
                     [] last.n \in 2..3 -> "small"
                     [] last.n \in 4..6 -> "medium"
                     [] last.n \in 7..9 -> "large"
                     [] OTHER -> ""

\* A party of four was mapped to the medium bucket.
C18_Witness ==
    /\ last.op = "bucket_from_size"
    /\ last.n = 4
    /\ last.res = "medium"

(***************************************************************************)
(* C17 as stated: the hold returns "invalid_time", and touches no cell,    *)
(* for every window that starts before opening, does not end after its     *)
(* start, is not aligned to 30 minutes or is longer than four slots; a     *)
(* successful hold writes no slot outside 1..24.                           *)
(***************************************************************************)
\* The rules of parse_and_validate_timeperiod a window may break (windows
\* that end after closing are not tried).
BreaksTimeRule(start_t, end_t) ==
    \/ start_t < OpensAt
    \/ start_t >= end_t
    \/ start_t % 30 # 0 \/ end_t % 30 # 0
    \/ end_t - start_t > 4 * 30

\* Every cell of the schedule that is not free is one of the given slots
\* of the given room, and holds the given tag.
OnlyCellsHeld(room_id, slots, tag) ==
    \A i \in 1..Len(ws_schedule) : \A k \in 1..NUM_SLOTS :
        IF ws_schedule[i].room_id = room_id /\ k \in Range(slots)
        THEN ws_schedule[i].cells[k] = tag
        ELSE ws_schedule[i].cells[k] = Free

C19_OneRowPerDayRoom ==
    \A i, j \in 1..Len(ws_schedule) :
        (ws_schedule[i].date = ws_schedule[j].date
           /\ ws_schedule[i].room_id = ws_schedule[j].room_id) => i = j

\* A finalize created the row of the pool's last room alone, a hold then
\* added the rows the day still lacked, and a row exists for the other day.
C19_Witness ==
    /\ Len(ws_schedule) > PoolSize
    /\ ws_schedule[1].room_id = ws_rooms[Max(StagedRooms)].room_id
    /\ \E i \in 2..Len(ws_schedule) :
          /\ ws_schedule[i].date = ws_schedule[1].date
          /\ ws_schedule[i].room_id = ws_rooms[Min(StagedRooms)].room_id
    /\ \E i \in 2..Len(ws_schedule) : ws_schedule[i].date # ws_schedule[1].date

(***************************************************************************)
(* A ledger with a record edited by hand: two confirmations of one         *)
(* requester for today were written by finalize_booking, and the           *)
(* slots_json cell of one of them was then overwritten in the sheet.       *)
(***************************************************************************)
EditedInit ==
    \E student_id \in ValidIds : \E edited \in 1..2 :
    \E o1 \in {finalize_outcome(<<>>, <<>>, 1, student_id, Today, 840, 870, "DISCUSSION-S",
                                ws_rooms[Min(StagedRooms)].room_id,
                                slots_from_period(840, 870).slots)} :
    \E o2 \in {finalize_outcome(o1.sched, o1.bk, 2, student_id, Today, 840, 870,
                                "DISCUSSION-S", ws_rooms[Min(StagedRooms)].room_id,
                                slots_from_period(840, 870).slots)} :
        /\ ws_schedule = o2.sched
        /\ ws_bookings = [o2.bk EXCEPT ![edited].slots = BadSlotsJson]
        /\ uuid_count = 2
        /\ calls = 0
        /\ last = NoCall
        /\ in_flight = [e \in Requests |-> Idle]

SpecEdited == EditedInit /\ [][Next]_vars

(***************************************************************************)
(* C20: a cancel that meets a matching active record whose slot list       *)
(* cannot be parsed skips it: the call returns normally, the malformed     *)
(* record is left as it is, and the other matching records are cancelled.  *)
(***************************************************************************)
C20_MalformedRecordSkipped ==
    [][\A rq \in CancelRequests :
        (/\ Cancel(rq[1], rq[2])
         /\ \E r \in cancel_matches(ws_bookings, rq[1], rq[2]) :
                ws_bookings[r].slots = BadSlotsJson)
        => /\ last'.res \in {"true", "false"}
           /\ \A r \in cancel_matches(ws_bookings, rq[1], rq[2]) :
                IF ws_bookings[r].slots = BadSlotsJson
                THEN ws_bookings'[r] = ws_bookings[r]
                ELSE ws_bookings'[r].status = "cancelled"]_vars

(***************************************************************************)
(* C22: a hold that reaches the search returns the first room, in the      *)
(* order of the bucket's rooms in the catalog, whose requested cells are   *)
(* all free before the call, and "no_availability" exactly when the bucket *)
(* has no such room.                                                       *)
(***************************************************************************)
\* The positions, in the bucket's catalog order, of the rooms whose
\* requested cells are all free (a room without a row is free).
FreeRooms(sched, date_str, bucket, slots) ==
    {c \in 1..Len(bucket_rooms(bucket)) :
        \A k \in Range(slots) :
            CellOf(sched, date_str, bucket_rooms(bucket)[c], k) = Free}

C22_FirstFreeRoom ==
    [][\A rq \in HoldRequests :
        (/\ Hold(rq[1], rq[2], rq[3], rq[4])
         /\ last'.res \in {"ok", "no_availability"})
        => LET bucket == bucket_from_internal_type(rq[3])
               free == FreeRooms(ws_schedule, rq[1], bucket,
                                 slots_from_period(rq[2][1], rq[2][2]).slots)
           IN  /\ last'.res = "no_availability" <=> free = {}
               /\ last'.res = "ok"
                    => last'.room_id = bucket_rooms(bucket)[Min(free)]]_vars

\* A hold found every room of the pool occupied at its first slot.
C22_Witness ==
    /\ last.op = "hold" /\ last.res = "no_availability"
    /\ \A c \in 1..PoolSize :
          CellOf(ws_schedule, Today, bucket_rooms("small")[c], 13) # Free

(***************************************************************************)
(* C23: a successful hold changes exactly the requested cells of the       *)
(* chosen room's row for the day, to HOLD:<requester id>; every other cell *)
(* of every row is as before (rows it adds are empty), and the ledger is   *)
(* unchanged.                                                              *)
(***************************************************************************)
C23_HoldFrame ==
    [][HoldReturned("ok") =>
        /\ last'.slots # <<>>
        /\ \A k \in Range(last'.slots) :
              CellOf(ws_schedule', last'.date, last'.room_id, k)
                = HoldTag(last'.student_id)
        /\ OtherCellsUnchanged(last'.date, last'.room_id, last'.slots)
        /\ RowsAddedEmptyBut(last'.date, last'.room_id, last'.slots)
        /\ ws_bookings' = ws_bookings
        /\ uuid_count' = uuid_count]_vars

\* A hold succeeded while the ledger had a record and another room of the
\* day had an occupied cell.
C23_Witness ==
    /\ last.op = "hold" /\ last.res = "ok"
    /\ ws_bookings # <<>>
    /\ \E i \in 1..Len(ws_schedule) :
          /\ ws_schedule[i].date = last.date
          /\ ws_schedule[i].room_id # last.room_id
          /\ ws_schedule[i].cells # empty_slots

(***************************************************************************)
(* C24: after ensure_rows_for_bucket(day, bucket) every room of the bucket *)
(* has a row for the day; the rows that existed keep their position and    *)
(* their cells, the new rows have 24 free cells, and a second call with    *)
(* the same arguments appends nothing.                                     *)
(***************************************************************************)
Buckets == {"solo", "small", "medium", "large"}

C24_EnsureRowsForBucket ==
    \A date_str \in Dates : \A bucket \in Buckets :
        LET s1 == ensure_rows_for_bucket(ws_schedule, date_str, bucket)
        IN  /\ \A c \in 1..Len(bucket_rooms(bucket)) :
                  \E i \in 1..Len(s1) : /\ s1[i].date = date_str
                                        /\ s1[i].room_id = bucket_rooms(bucket)[c]
            /\ Len(s1) >= Len(ws_schedule)
            /\ SubSeq(s1, 1, Len(ws_schedule)) = ws_schedule
            /\ \A i \in (Len(ws_schedule) + 1)..Len(s1) : s1[i].cells = empty_slots
            /\ ensure_rows_for_bucket(s1, date_str, bucket) = s1

\* A hold found the row of the pool's last room alone on the sheet, kept
\* it first and added the row of the first room after it.
C24_Witness ==
    /\ last.op = "hold" /\ last.res = "ok"
    /\ Len(ws_schedule) = PoolSize
    /\ ws_schedule[1].room_id = bucket_rooms("small")[PoolSize]
    /\ ws_schedule[PoolSize].room_id = last.room_id
    /\ last.room_id = bucket_rooms("small")[1]

(***************************************************************************)
(* C30: in every reachable state every cell of an active record's slot     *)
(* list, in the row of its (day, room), holds that record's booking id.    *)
(***************************************************************************)
C30_ActiveOccupiesCells ==
    \A i \in Active(ws_bookings) : \A k \in Range(ws_bookings[i].slots) :
        CellOf(ws_schedule, ws_bookings[i].date, ws_bookings[i].room_id, k)
          = ws_bookings[i].booking_id

(***************************************************************************)
(* C27: a hold that runs to its end issues at most 5 remote calls in all,  *)
(* of which exactly one is the batched read of the candidates' cells and   *)
(* exactly one the batched write of the hold.                              *)
(***************************************************************************)
\* How many of the calls issued are calls of the given method.
CallsOf(api_calls, method) ==
    Cardinality({i \in 1..Len(api_calls) : api_calls[i] = method})

C27_HoldCallBudget ==
    (last.op = "hold" /\ last.res = "ok")
      => /\ Len(last.api_calls) <= 5
         /\ CallsOf(last.api_calls, "ws_schedule.batch_get") = 1
         /\ CallsOf(last.api_calls, "ws_schedule.batch_update") = 1

(***************************************************************************)
(* C28: a cancel issues a number of remote calls that does not grow with   *)
(* the rows of the ledger: one read of the ledger, one batched clearing    *)
(* write and one batched status write.                                     *)
(***************************************************************************)
C28_CancelCallBudget ==
    last.op = "cancel"
      => /\ Len(last.api_calls) <= 3
         /\ CallsOf(last.api_calls, "ws_bookings.row_values") = 0

(***************************************************************************)
(* C25: coalescing does not depend on the order of the list: every         *)
(* permutation of a list of slots gives the same runs, and the list        *)
(* 5, 6, 7, 10, 11 gives the runs (5, 7) and (10, 11).                     *)
(***************************************************************************)
C25_CoalesceOrderIndependent ==
    last.op = "coalesce_slots" =>
        /\ \A y \in OrdersOf(last.x) : coalesce_slots(y) = last.res
        /\ last.x \in OrdersOf(<<5, 6, 7, 10, 11>>)
             => last.res = <<(<<5, 7>>), (<<10, 11>>)>>

\* The five slots were given out of order.
C25_Witness ==
    /\ last.op = "coalesce_slots"
    /\ last.x = <<11, 5, 7, 10, 6>>
    /\ last.res = <<(<<5, 7>>), (<<10, 11>>)>>

(***************************************************************************)
(* C26 as stated: coalescing applied to its own result is defined and      *)
(* returns that result unchanged.                                          *)
(***************************************************************************)
C26_CoalesceIdempotent ==
    last.op = "coalesce_slots" =>
        /\ ~last.again.raised
        /\ last.again.res = last.res

(***************************************************************************)
(* C26 amended: coalescing applied to its own result raises unless the     *)
(* list was empty (the result is a list of pairs, not of slots); the runs  *)
(* returned cover the slots given, and coalescing the slots the runs cover *)
(* gives the same runs.                                                    *)
(***************************************************************************)
\* The slots the runs cover, run after run.
RECURSIVE SlotsOfRuns(_)
SlotsOfRuns(runs) ==
    IF runs = <<>> THEN <<>>
    ELSE [i \in 1..(runs[1][2] - runs[1][1] + 1) |-> runs[1][1] + i - 1]
           \o SlotsOfRuns(Tail(runs))

C26_CoalesceOfCoveredSlots ==
    last.op = "coalesce_slots" =>
        /\ last.again.raised <=> last.x # <<>>
        /\ SlotsOfRuns(last.res) = SortSeq(last.x, <)
        /\ coalesce_slots(SlotsOfRuns(last.res)) = last.res

\* The second application raised on the two runs of the five slots.
C26_Witness ==
    /\ last.op = "coalesce_slots"
    /\ last.x = <<5, 6, 7, 10, 11>>
    /\ Len(last.res) = 2
    /\ last.again.raised

(***************************************************************************)
(* Two requests served at the same time.  A hold is two steps: HoldRead,   *)
(* the call up to and including the batched read of the candidates' cells  *)
(* and the choice of the room, and HoldWrite, the batched write of the     *)
(* hold tag into the row chosen.  A call turned away returns in HoldRead.  *)
(***************************************************************************)
HoldRead(e, date_str, period, internal_room_type, student_id) ==
    /\ in_flight[e].pc = "idle"
    /\ \E o \in {hold_outcome(ws_schedule, ws_bookings, date_str, period[1], period[2],
                              internal_room_type, student_id)} :
        IF o.res = "ok"
        THEN \E sched1 \in {ensure_rows_for_bucket(ws_schedule, date_str,
                                bucket_from_internal_type(internal_room_type))} :
                /\ ws_schedule' = sched1
                /\ in_flight' =
                     [in_flight EXCEPT ![e] =
                        [pc |-> "read", res |-> "", student_id |-> student_id,
                         date |-> date_str, room_id |-> o.room_id,
                         row_idx |-> load_all_for_date(sched1, date_str)[o.room_id],
                         slots |-> o.slots,
                         hold_tag |-> HoldTag(IF normalize_student_id(student_id) # None
                                              THEN normalize_student_id(student_id)
                                              ELSE student_id)]]
                /\ UNCHANGED <<ws_bookings, uuid_count, calls, last>>
        ELSE /\ ws_schedule' = o.sched
             /\ in_flight' = [in_flight EXCEPT ![e] =
                                [Idle EXCEPT !.pc = "returned", !.res = o.res]]
             /\ calls' = calls + 1
             /\ last' = [NoCall EXCEPT !.op = "hold", !.res = o.res]
             /\ UNCHANGED <<ws_bookings, uuid_count>>

HoldWrite(e) ==
    /\ in_flight[e].pc = "read"
    /\ ws_schedule' = [ws_schedule EXCEPT ![in_flight[e].row_idx].cells =
                          write_hold(@, in_flight[e].slots, in_flight[e].hold_tag)]
    /\ in_flight' = [in_flight EXCEPT ![e].pc = "returned", ![e].res = "ok"]
    /\ calls' = calls + 1
    /\ last' = [NoCall EXCEPT !.op = "hold", !.res = "ok",
                              !.student_id = in_flight[e].student_id,
                              !.date = in_flight[e].date,
                              !.room_id = in_flight[e].room_id,
                              !.slots = in_flight[e].slots]
    /\ UNCHANGED <<ws_bookings, uuid_count>>

RaceNext ==
    \/ \E e \in Requests : \E rq \in HoldRequests :
          HoldRead(e, rq[1], rq[2], rq[3], rq[4])
    \/ \E e \in Requests : HoldWrite(e)

RaceSpec == Init /\ [][RaceNext]_vars

(***************************************************************************)
(* C21: when two holds for the same bucket, day and overlapping slots both *)
(* read before either writes, both return success with the same room: the  *)
(* write of each succeeds whatever the other did, and the later write      *)
(* replaces the hold tag the earlier one left.                             *)
(***************************************************************************)
\* The other request chose the same row for overlapping slots, in a read
\* made before this request's write.
SameCells(e, o) ==
    /\ in_flight[o].pc \in {"read", "returned"}
    /\ in_flight[o].row_idx = in_flight[e].row_idx
    /\ Range(in_flight[o].slots) \cap Range(in_flight[e].slots) # {}

C21_DoubleHold ==
    [][\A e \in Requests : \A o \in Requests \ {e} :
        (HoldWrite(e) /\ SameCells(e, o))
        => /\ in_flight'[e].res = "ok"
           /\ in_flight'[e].room_id = in_flight[o].room_id
           /\ in_flight'[e].date = in_flight[o].date
           /\ \A k \in Range(in_flight[e].slots) :
                 ws_schedule'[in_flight[e].row_idx].cells[k] = in_flight[e].hold_tag
           /\ in_flight'[o] = in_flight[o]
           /\ in_flight[o].pc = "returned"
                => /\ in_flight[o].res = "ok"
                   /\ \A k \in Range(in_flight[o].slots) :
                         ws_schedule[in_flight[o].row_idx].cells[k]
                           = in_flight[o].hold_tag]_vars

\* Both requests returned success with the same room for overlapping
\* slots, and the cells they share carry the tag of the later writer only.
C21_Witness ==
    /\ \A e \in Requests : in_flight[e].pc = "returned" /\ in_flight[e].res = "ok"
    /\ in_flight[1].row_idx = in_flight[2].row_idx
    /\ in_flight[1].room_id = in_flight[2].room_id
    /\ in_flight[1].hold_tag # in_flight[2].hold_tag
    /\ Range(in_flight[1].slots) \cap Range(in_flight[2].slots) # {}
    /\ \A k \in Range(in_flight[1].slots) \cap Range(in_flight[2].slots) :
          ws_schedule[in_flight[1].row_idx].cells[k] = HoldTag(last.student_id)

(***************************************************************************)
(* The ConfirmBooking intent.  The parameters are what the session store   *)
(* and the booking context hold when the user says yes.                    *)
(***************************************************************************)
MAX_BOOKING_HOURS == 2

\* _to_day_hour of the daytime fallback.
to_day_hour(h) == IF h % 12 = 0 THEN 12 ELSE h % 12

\* The validator is given datetimes parsed from ISO text, which carry
\* seconds: its times are seconds since the midnight of the day of the
\* start.  MinuteOfDay is the hour and minute of such a time, the part
\* that .hour, .minute and strftime('%I:%M %p') show.
MinuteOfDay(ts) == FloorDiv(ts, 60) % (24 * 60)

\* A window of whole minutes as the validator is given it.
InSeconds(period) == <<period[1] * 60, period[2] * 60>>

\* s.minute in (0, 30): the minute field alone is read.
time_on_boundary(ts) == Minute(MinuteOfDay(ts)) \in {0, 30}

\* _validate_and_return: duration, 30-minute boundaries, opening hours.
validate_and_return(s, e) ==
    IF e - s > MAX_BOOKING_HOURS * 3600
    THEN [ok |-> FALSE, msg |-> "too_long", start_t |-> 0, end_t |-> 0]
    ELSE IF ~time_on_boundary(s) \/ ~time_on_boundary(e)
    THEN [ok |-> FALSE, msg |-> "boundaries", start_t |-> 0, end_t |-> 0]
    ELSE IF ~(OpensAt * 60 <= s /\ s < e /\ e <= ClosesAt * 60)
    THEN [ok |-> FALSE, msg |-> "outside_hours", start_t |-> 0, end_t |-> 0]
    ELSE [ok |-> TRUE, msg |-> "", start_t |-> s, end_t |-> e]

\* The window with its hours coerced to the morning, minutes and seconds
\* kept; an end that is then not after the start is put at the start plus
\* the duration given.
daytime_fallback(s, e) ==
    LET s_alt == to_day_hour(s \div 3600) * 3600 + (s % 3600)
        e_alt == to_day_hour(e \div 3600) * 3600 + (e % 3600)
    IN  validate_and_return(s_alt, IF e_alt <= s_alt THEN s_alt + (e - s) ELSE e_alt)

\* slots_from_period of two datetimes that carry seconds: the number of
\* slots is the whole number of half hours in the seconds between them,
\* the first slot is that of the start's hour and minute.
slots_from_period_of_seconds(start_s, end_s) ==
    LET total_slots == FloorDiv(end_s - start_s, SLOT_MINUTES * 60)
        start_slot == dt_to_slot_index(MinuteOfDay(start_s))
    IN  IF start_slot = 0 THEN [ok |-> FALSE, slots |-> <<>>]
        ELSE [ok |-> TRUE,
              slots |-> [i \in 1..Max({total_slots, 0}) |-> start_slot + i - 1]]

\* parse_and_validate_timeperiod for a window within one day, or None.
parse_and_validate_timeperiod(time_period) ==
    IF time_period = None
    THEN [ok |-> FALSE, msg |-> "missing_time", start_t |-> 0, end_t |-> 0]
    ELSE LET raw == validate_and_return(time_period[1], time_period[2])
         IN  IF raw.ok THEN raw
             ELSE IF raw.msg = "outside_hours"
             THEN daytime_fallback(time_period[1], time_period[2])
             ELSE raw

\* The handler handing the session's id to finalize_booking as it is.
confirm_outcome_unchecked(sched, bk, uuid, params) ==
    LET t == parse_and_validate_timeperiod(params.booking_time)
        done == finalize_outcome(sched, bk, uuid, params.student_id, params.date,
                                 MinuteOfDay(t.start_t), MinuteOfDay(t.end_t),
                                 params.room_type,
                                 params.room_id, params.slots)
    IN  IF ~t.ok THEN [text |-> "time_invalid", sched |-> sched, bk |-> bk]
        ELSE IF params.room_type = "" \/ params.room_id = None \/ params.slots = <<>>
        THEN [text |-> "no_staged_room", sched |-> sched, bk |-> bk]
        ELSE [text |-> "saved", sched |-> done.sched, bk |-> done.bk]

\* handle_confirm_booking: the id must normalize, the time must validate
\* and a room with slots must be staged before finalize_booking is called.
confirm_outcome(sched, bk, uuid, params) ==
    LET student_id == normalize_student_id(params.student_id)
        t == parse_and_validate_timeperiod(params.booking_time)
        done == finalize_outcome(sched, bk, uuid, student_id, params.date,
                                 MinuteOfDay(t.start_t), MinuteOfDay(t.end_t),
                                 params.room_type,
                                 params.room_id, params.slots)
    IN  IF student_id = None THEN [text |-> "enter_id", sched |-> sched, bk |-> bk]
        ELSE IF ~t.ok THEN [text |-> "time_invalid", sched |-> sched, bk |-> bk]
        ELSE IF params.room_type = "" \/ params.room_id = None \/ params.slots = <<>>
        THEN [text |-> "no_staged_room", sched |-> sched, bk |-> bk]
        ELSE [text |-> "saved", sched |-> done.sched, bk |-> done.bk]

\* Ids a session may hold: none, the two valid ids, "PENDING", " 1234567 ",
\* "123456" and "12345678".
RawIds ==
    {None, SID_A, SID_Z, PENDING, <<36, 1, 2, 3, 4, 5, 6, 7, 36>>,
     <<1, 2, 3, 4, 5, 6>>, <<1, 2, 3, 4, 5, 6, 7, 8>>}

\* Windows a session may hold besides 14:00-14:30: none, and 14:00-17:00.
BadSessionTimes == {None, InSeconds(<<840, 1020>>)}

\* What handle_book_room staged: nothing, or the first or the last room of
\* the pool with the slot of 14:00-14:30.
NothingStaged == [room_type |-> "", room_id |-> None, slots |-> <<>>]
Staged ==
    {[room_type |-> internal_type_of(ws_rooms[r].room_type),
      room_id |-> ws_rooms[r].room_id,
      slots |-> slots_from_period(840, 870).slots] :
        r \in {Min(StagedRooms), Max(StagedRooms)}}

SessionParams(sid, t, st) ==
    [student_id |-> sid, date |-> Today, booking_time |-> t,
     room_type |-> st.room_type, room_id |-> st.room_id, slots |-> st.slots]

\* The sessions confirmed: any id with a good window and a room staged; a
\* valid id with a bad window, and with nothing staged.
ConfirmParams ==
    {SessionParams(sid, InSeconds(<<840, 870>>), st) : sid \in RawIds, st \in Staged}
      \cup {SessionParams(SID_A, t, st) : t \in BadSessionTimes, st \in Staged}
      \cup {SessionParams(SID_A, InSeconds(<<840, 870>>), NothingStaged)}

\* The holds of BookRoom: a validated window, with the session's id or
\* the placeholder.
BookRoomRequests == {Today} \X {<<840, 870>>} \X InternalTypes \X HoldIds

ConfirmBooking(params) ==
    /\ calls < MaxCalls
    /\ \E o \in {confirm_outcome(ws_schedule, ws_bookings, uuid_count + 1, params)} :
        /\ calls' = calls + 1
        /\ uuid_count' = IF o.text = "saved" THEN uuid_count + 1 ELSE uuid_count
        /\ ws_schedule' = o.sched
        /\ ws_bookings' = o.bk
        /\ last' = [NoCall EXCEPT !.op = "confirm", !.res = o.text,
                                  !.student_id = params.student_id,
                                  !.date = params.date]
        /\ UNCHANGED in_flight

\* The webhook: BookRoom holds with the session's id or the placeholder,
\* ConfirmBooking finalizes, CancelBooking cancels.
WebhookNext ==
    \/ \E rq \in BookRoomRequests : Hold(rq[1], rq[2], rq[3], rq[4])
    \/ \E params \in ConfirmParams : ConfirmBooking(params)
    \/ \E sid \in ValidIds : Cancel(sid, Today)

WebhookSpec == Init /\ [][WebhookNext]_vars

(***************************************************************************)
(* C29: no ledger record is ever created with an id that is not 7 digits:  *)
(* ConfirmBooking finalizes only when the session's id normalizes to       *)
(* exactly 7 digits, and records the normalized id; otherwise it asks for  *)
(* the id and leaves schedule and ledger unchanged.                        *)
(***************************************************************************)
SevenDigits(sid) == Len(sid) = 7 /\ \A i \in 1..Len(sid) : IsDigit(sid[i])

\* last.student_id of a confirmation is the id as the session held it.
C29_LedgerIdsValidated ==
    [][/\ \A i \in 1..Len(ws_bookings') : SevenDigits(ws_bookings'[i].student_id)
       /\ (Called /\ last'.op = "confirm") =>
              IF normalize_student_id(last'.student_id) = None
              THEN /\ last'.res = "enter_id"
                   /\ ws_schedule' = ws_schedule
                   /\ ws_bookings' = ws_bookings
              ELSE /\ last'.res # "enter_id"
                   /\ last'.res = "saved" <=> Len(ws_bookings') = Len(ws_bookings) + 1
                   /\ last'.res = "saved"
                        => ws_bookings'[Len(ws_bookings')].student_id
                             = normalize_student_id(last'.student_id)]_vars

\* A confirmation with the placeholder as id was asked for the id, while a
\* room is held with the placeholder and the ledger has a record saved by
\* an earlier confirmation.
C29_Witness ==
    /\ last.op = "confirm" /\ last.res = "enter_id"
    /\ last.student_id = PENDING
    /\ ws_bookings # <<>>
    /\ \E i \in 1..Len(ws_schedule) : \E k \in 1..NUM_SLOTS :
          ws_schedule[i].cells[k] = HoldTag(PENDING)

C32_CancelClearsOwnCellsOnly ==
    [][CancelReturned("true") =>
        \A i \in 1..Len(ws_schedule) : \A k \in 1..NUM_SLOTS :
            (ws_schedule[i].cells[k] # Free /\ ws_schedule'[i].cells[k] = Free)
              => \E r \in Active(ws_bookings) :
                    /\ ws_bookings'[r].status = "cancelled"
                    /\ ws_bookings[r].booking_id = ws_schedule[i].cells[k]]_vars

(***************************************************************************)
(* The engine called for two days and two room types.                      *)
(***************************************************************************)
TwoTypes == {"DISCUSSION-S", "DISCUSSION-M"}

DayHoldRequests == Dates \X {<<840, 870>>} \X TwoTypes \X {SID_A}

\* The confirmations name the first room of either type.
DayFinalizeRequests ==
    {SID_A} \X Dates \X {<<840, 870>>}
      \X {Min({i \in 1..Len(ws_rooms) : internal_type_of(ws_rooms[i].room_type) = t}) :
             t \in TwoTypes}

DayCancelRequests == {SID_A} \X Dates

DaysNext ==
    \/ \E rq \in DayHoldRequests : Hold(rq[1], rq[2], rq[3], rq[4])
    \/ \E rq \in DayFinalizeRequests : Finalize(rq[1], rq[2], rq[3], rq[4])
    \/ \E rq \in DayCancelRequests : Cancel(rq[1], rq[2])

DaysSpec == Init /\ [][DaysNext]_vars

\* The rows that were there keep their date and room; a cell that changed
\* and a row that was added are of the given day and of one of the buckets.
OnlyRowsOf(date_str, buckets) ==
    /\ Len(ws_schedule') >= Len(ws_schedule)
    /\ \A i \in 1..Len(ws_schedule) :
          /\ ws_schedule'[i].date = ws_schedule[i].date
          /\ ws_schedule'[i].room_id = ws_schedule[i].room_id
          /\ ws_schedule'[i].cells # ws_schedule[i].cells
               => /\ ws_schedule[i].date = date_str
                  /\ ws_schedule[i].room_type \in buckets
    /\ \A i \in (Len(ws_schedule) + 1)..Len(ws_schedule') :
          /\ ws_schedule'[i].date = date_str
          /\ ws_schedule'[i].room_type \in buckets

(***************************************************************************)
(* C35: a hold, a finalize and a cancel for day D change only cells of     *)
(* rows whose date is D, and add only rows of day D; a hold for bucket B   *)
(* moreover touches only rows of the rooms of bucket B.  Rows of another   *)
(* day, and for a hold rows of another bucket, are as they were.           *)
(***************************************************************************)
C35_OnlyRowsOfDayAndBucket ==
    [][/\ \A rq \in DayHoldRequests :
             (last'.op = "hold" /\ Hold(rq[1], rq[2], rq[3], rq[4]))
               => OnlyRowsOf(rq[1], {bucket_from_internal_type(rq[3])})
       /\ \A rq \in DayFinalizeRequests :
             (last'.op = "finalize" /\ Finalize(rq[1], rq[2], rq[3], rq[4]))
               => OnlyRowsOf(rq[2], Buckets)
       /\ \A rq \in DayCancelRequests :
             (last'.op = "cancel" /\ Cancel(rq[1], rq[2]))
               => OnlyRowsOf(rq[2], Buckets)]_vars

\* A call for tomorrow changed a cell while the sheet has a row of today
\* with an occupied cell, and a hold for the medium rooms found the rows of
\* the small rooms of its day.
C35_Witness ==
    /\ last.date = Tomorrow
    /\ \E i, j \in 1..Len(ws_schedule) :
          /\ ws_schedule[i].date = Today /\ ws_schedule[i].cells # empty_slots
          /\ ws_schedule[j].date = Tomorrow /\ ws_schedule[j].cells # empty_slots
          /\ ws_schedule[j].room_type = "medium"
    /\ \E i \in 1..Len(ws_schedule) :
          ws_schedule[i].date = Tomorrow /\ ws_schedule[i].room_type = "small"

(***************************************************************************)
(* C38: for every list of slot indices, repeated indices included, the     *)
(* runs _coalesce_slots returns are ascending, pairwise disjoint and not   *)
(* adjacent (each run starts at least two after the end of the run before  *)
(* it), and together they cover exactly the indices given.                 *)
(***************************************************************************)
C38_RunsDisjointAndExact ==
    last.op = "coalesce_slots" =>
        /\ \A i \in 1..Len(last.res) : last.res[i][1] <= last.res[i][2]
        /\ \A i \in 1..(Len(last.res) - 1) : last.res[i + 1][1] > last.res[i][2] + 1
        /\ Range(SlotsOfRuns(last.res)) = Range(last.x)

(***************************************************************************)
(* parse_and_validate_timeperiod called on the windows of one day whose    *)
(* ends are quarter hours, or quarter hours and thirty seconds.            *)
(***************************************************************************)
HalfMinutes == {0, 30}
TimesOfDay == {t * 60 + sec : t \in QuarterHours \ {24 * 60}, sec \in HalfMinutes}

ValidateCall(start_s, end_s) ==
    /\ calls = 0
    /\ calls' = 1
    /\ \E t \in {parse_and_validate_timeperiod(<<start_s, end_s>>)} :
          last' = [op |-> "parse_and_validate_timeperiod",
                   x |-> <<start_s, end_s>>, ok |-> t.ok, msg |-> t.msg,
                   start_t |-> t.start_t, end_t |-> t.end_t,
                   slots |-> IF t.ok
                             THEN slots_from_period_of_seconds(t.start_t, t.end_t)
                             ELSE [ok |-> FALSE, slots |-> <<>>]]
    /\ UNCHANGED <<ws_schedule, ws_bookings, uuid_count, in_flight>>

ValidateNext ==
    calls = 0 /\ \E start_s \in TimesOfDay : \E end_s \in TimesOfDay :
        ValidateCall(start_s, end_s)

ValidateSpec == Init /\ [][ValidateNext]_vars

(***************************************************************************)
(* C34: every window parse_and_validate_timeperiod accepts, the windows of *)
(* the morning fallback included, starts at or after 08:00, ends after its *)
(* start and at or before 20:00, has start and end exactly on :00 or :30   *)
(* and lasts at most MAX_BOOKING_HOURS, and slots_from_period of it is a   *)
(* list of 1 to 4 consecutive slot indices within 1..NUM_SLOTS.            *)
(***************************************************************************)
C34_AcceptedWindowWellFormed ==
    (last.op = "parse_and_validate_timeperiod" /\ last.ok) =>
        /\ OPEN_HOUR * 3600 <= last.start_t
        /\ last.start_t < last.end_t
        /\ last.end_t <= CLOSE_HOUR * 3600
        /\ last.start_t % (SLOT_MINUTES * 60) = 0
        /\ last.end_t % (SLOT_MINUTES * 60) = 0
        /\ last.end_t - last.start_t <= MAX_BOOKING_HOURS * 3600
        /\ last.slots.ok
        /\ Len(last.slots.slots) \in 1..4
        /\ \A i \in 1..Len(last.slots.slots) :
              /\ last.slots.slots[i] \in 1..NUM_SLOTS
              /\ i > 1 => last.slots.slots[i] = last.slots.slots[i - 1] + 1

(***************************************************************************)
(* One conversation: the BookRoom intent, run again whenever the user      *)
(* changes the time or the party size, and the ConfirmBooking intent.      *)
(***************************************************************************)
\* handle_book_room with a valid date: res is "ok" when a room is staged,
\* else the answer given; hold_sid is the tag the cells are held with.
book_room_outcome(sched, bk, params) ==
    LET t == parse_and_validate_timeperiod(params.booking_time)
        cat == auto_category_from_size(params.room_size)
        internal_type == room_type_from_size_and_category(params.room_size, cat)
        sid_now == normalize_student_id(params.student_id)
        hold_sid == IF sid_now # None THEN sid_now
                    ELSE IF params.student_id # None THEN params.student_id
                    ELSE PENDING
        held == hold_outcome(sched, bk, params.date, MinuteOfDay(t.start_t),
                             MinuteOfDay(t.end_t), internal_type, hold_sid)
        Answer(text) == [res |-> text, sched |-> sched, room_type |-> "",
                         room_id |-> None, slots |-> <<>>, hold_sid |-> hold_sid]
    IN  IF ~t.ok THEN Answer(t.msg)
        ELSE IF cat = "" THEN Answer("size_not_understood")
        ELSE IF internal_type = "" THEN Answer("unsupported_size")
        ELSE IF held.res # "ok" THEN [Answer(held.res) EXCEPT !.sched = held.sched]
        ELSE [res |-> "ok", sched |-> held.sched, room_type |-> internal_type,
              room_id |-> held.room_id, slots |-> held.slots, hold_sid |-> hold_sid]

\* What the user may have told the bot when BookRoom runs: today, one of
\* three windows at whole minutes (the last one too long), a party of 3, 4
\* or 10, and the student id or none yet.
SessionWindows == {InSeconds(<<840, 870>>), InSeconds(<<840, 900>>), InSeconds(<<840, 1020>>)}
SessionSizes == {3, 4, 10}
BookRoomParams ==
    {[date |-> Today, booking_time |-> t, room_size |-> n, student_id |-> sid] :
        t \in SessionWindows, n \in SessionSizes, sid \in {None, SID_A}}

BookRoom(params) ==
    /\ calls < MaxCalls
    /\ \E o \in {book_room_outcome(ws_schedule, ws_bookings, params)} :
        /\ calls' = calls + 1
        /\ ws_schedule' = o.sched
        /\ last' = [op |-> "book_room", res |-> o.res, student_id |-> o.hold_sid,
                    date |-> params.date, room_id |-> o.room_id, slots |-> o.slots,
                    api_calls |-> <<>>, room_size |-> params.room_size,
                    room_type |-> o.room_type, booking_time |-> params.booking_time]
        /\ UNCHANGED <<ws_bookings, uuid_count, in_flight>>

\* The user says yes to what BookRoom has just staged, and has given the
\* student id by then.
ConfirmStaged ==
    /\ last.op = "book_room" /\ last.res = "ok"
    /\ ConfirmBooking([student_id |-> SID_A, date |-> last.date,
                       booking_time |-> last.booking_time,
                       room_type |-> last.room_type, room_id |-> last.room_id,
                       slots |-> last.slots])

SessionNext ==
    \/ \E params \in BookRoomParams : BookRoom(params)
    \/ ConfirmStaged

SessionSpec == Init /\ [][SessionNext]_vars

(***************************************************************************)
(* C37: the room a successful BookRoom stages for a party of n belongs to  *)
(* the bucket derived from n, and its capacity range in the Rooms          *)
(* worksheet contains n.                                                   *)
(***************************************************************************)
C37_RoomFitsParty ==
    (last.op = "book_room" /\ last.res = "ok") =>
        \E r \in 1..Len(ws_rooms) :
            /\ ws_rooms[r].room_id = last.room_id
            /\ ws_rooms[r].room_type = bucket_from_size(last.room_size)
            /\ ws_rooms[r].capacity_min <= last.room_size
            /\ last.room_size <= ws_rooms[r].capacity_max
            /\ \E i \in 1..Len(ws_schedule) :
                  /\ ws_schedule[i].room_id = last.room_id
                  /\ ws_schedule[i].room_type = ws_rooms[r].room_type

\* A party of four was given the medium room while the small rooms of the
\* day have rows on the sheet.
C37_Witness ==
    /\ last.op = "book_room" /\ last.res = "ok"
    /\ last.room_size = 4
    /\ last.room_id = <<"M", 1>>
    /\ \E i \in 1..Len(ws_schedule) : ws_schedule[i].room_type = "small"

(***************************************************************************)
(* C36: in one conversation at most one room's cells are Held for the      *)
(* booking that is not yet confirmed: after BookRoom has run again, the    *)
(* cells its earlier run held are no longer Held.                          *)
(***************************************************************************)
C36_OneHeldRoomPerSession ==
    \A i, j \in 1..Len(ws_schedule) :
        (/\ \E k \in 1..NUM_SLOTS : ws_schedule[i].cells[k].kind = "HOLD"
         /\ \E k \in 1..NUM_SLOTS : ws_schedule[j].cells[k].kind = "HOLD")
          => i = j

(***************************************************************************)
(* The store failing under finalize_booking.  A remote call may raise      *)
(* (quota, network); here ws_bookings.append_row of append_booking_row     *)
(* raises after replace_hold_with_booking has written.  finalize_booking   *)
(* and handle_confirm_booking catch nothing, so the webhook's handler      *)
(* answers "Something went wrong" with the schedule as it was written.     *)
(***************************************************************************)
FinalizeAppendFails(student_id, date_str, period, room) ==
    /\ calls < MaxCalls
    /\ \E o \in {finalize_outcome(ws_schedule, ws_bookings, uuid_count + 1, student_id,
                                  date_str, period[1], period[2],
                                  internal_type_of(ws_rooms[room].room_type),
                                  ws_rooms[room].room_id,
                                  slots_from_period(period[1], period[2]).slots)} :
        /\ calls' = calls + 1
        /\ uuid_count' = uuid_count + 1
        /\ ws_schedule' = o.sched
        /\ last' = [op |-> "finalize", res |-> "error", student_id |-> student_id,
                    date |-> date_str, room_id |-> ws_rooms[room].room_id,
                    slots |-> slots_from_period(period[1], period[2]).slots]
        /\ UNCHANGED <<ws_bookings, in_flight>>

StoreFailNext ==
    \/ Next
    \/ \E rq \in FinalizeRequests : FinalizeAppendFails(rq[1], rq[2], rq[3], rq[4])

StoreFailSpec == Init /\ [][StoreFailNext]_vars

(***************************************************************************)
(* C33: when the store fails between the schedule write and the ledger     *)
(* append of a finalize, no cell is left with a booking id that has no     *)
(* ledger record: every booking id found in a cell is the booking_id of    *)
(* some row of the ledger.                                                 *)
(***************************************************************************)
C33_NoBookingIdWithoutRecord ==
    \A i \in 1..Len(ws_schedule) : \A k \in 1..NUM_SLOTS :
        ws_schedule[i].cells[k].kind = "BKG"
          => \E r \in 1..Len(ws_bookings) :
                ws_bookings[r].booking_id = ws_schedule[i].cells[k]

=============================================================================
